---- MODULE Spec2Model ----
(***************************************************************************)
(* Platform-upload orchestration of cfworker-upload: the platform router   *)
(* (uploadToPlatform), the YouTube pipeline (uploadToYouTube: metadata     *)
(* normalisation, media insert, status verification, thumbnail attach) and *)
(* the Bilibili stub.  Every await of the code is a suspension point: one  *)
(* action runs the code from one await to the next.                        *)
(***************************************************************************)
EXTENDS Integers, Sequences, FiniteSets, TLC

\* Number of request slots of the model; Spec starts only request 1.
NumReqs == 2
\* Number of distinct media ids the platform may hand out.
NumVideoIds == 2

Reqs == 1..NumReqs

(***************************************************************************)
(* JavaScript values: undefined, null, strings and numbers, and the        *)
(* truthiness the code's ||, ?: and if rely on.                            *)
(***************************************************************************)
Undefined == [t |-> "undefined", v |-> ""]
Null == [t |-> "null", v |-> ""]
Str(s) == [t |-> "string", v |-> s]
Num(s) == [t |-> "number", v |-> s]

Truthy(x) ==
    \/ x.t = "string" /\ x.v # ""
    \/ x.t = "number" /\ x.v # "0"

\* a || b
Or(a, b) == IF Truthy(a) THEN a ELSE b

(***************************************************************************)
(* Strings, character by character.                                        *)
(***************************************************************************)
Char(s, i) == SubSeq(s, i, i)

\* String.prototype.startsWith
StartsWith(s, p) == Len(s) >= Len(p) /\ SubSeq(s, 1, Len(p)) = p

Contains(s, c) == \E i \in 1..Len(s) : Char(s, i) = c

IsDigit(c) == \E i \in 1..10 : Char("0123456789", i) = c

UpperCase == "ABCDEFGHIJKLMNOPQRSTUVWXYZ"
LowerCase == "abcdefghijklmnopqrstuvwxyz"

ToLowerChar(c) ==
    IF \E i \in 1..26 : Char(UpperCase, i) = c
    THEN Char(LowerCase, CHOOSE i \in 1..26 : Char(UpperCase, i) = c)
    ELSE c

RECURSIVE toLowerCase(_)
\* String.prototype.toLowerCase
toLowerCase(s) ==
    IF s = "" THEN "" ELSE ToLowerChar(Head(s)) \o toLowerCase(Tail(s))

RECURSIVE DigitShape(_)
\* The string with every decimal digit replaced by d.
DigitShape(s) ==
    IF s = "" THEN ""
    ELSE (IF IsDigit(Head(s)) THEN "d" ELSE Head(s)) \o DigitShape(Tail(s))

(***************************************************************************)
(* formatAccessToken and the metadata normaliser of uploadToYouTube.       *)
(***************************************************************************)
\* Variant: the prefix is added without looking at the token.
formatAccessTokenAlwaysPrefixed(accessToken) == "Bearer " \o accessToken

formatAccessToken(accessToken) ==
    IF StartsWith(accessToken, "Bearer ")
    THEN accessToken
    ELSE "Bearer " \o accessToken

\* Variant: the caller's privacyStatus is ignored.
EffectivePrivacyStatusAlwaysPrivate(metadata, publish_time) == Str("private")

\* publish_time ? 'private' : (metadata.privacyStatus || 'private')
EffectivePrivacyStatus(metadata, publish_time) ==
    IF Truthy(publish_time)
    THEN Str("private")
    ELSE Or(metadata.privacyStatus, Str("private"))

\* The tail of s matches [+-]\d{2}:\d{2}$
EndsWithOffset(s) ==
    /\ Len(s) >= 6
    /\ LET t == SubSeq(s, Len(s) - 5, Len(s))
       IN /\ Char(t, 1) \in {"+", "-"}
          /\ IsDigit(Char(t, 2)) /\ IsDigit(Char(t, 3))
          /\ Char(t, 4) = ":"
          /\ IsDigit(Char(t, 5)) /\ IsDigit(Char(t, 6))

\* Variant: only a numeric offset counts as a timezone.
TimezoneRegexTestOffsetOnly(s) == EndsWithOffset(s)

\* /Z|[+-]\d{2}:\d{2}$/.test(s): a Z anywhere, or a numeric offset at the end
TimezoneRegexTest(s) == Contains(s, "Z") \/ EndsWithOffset(s)

\* Variant: no Z is appended.
FormattedTimeUnchanged(s) == s

\* formattedTime: the caller's string, with Z appended when the test fails
FormattedTime(s) == IF ~TimezoneRegexTest(s) THEN s \o "Z" ELSE s

\* new Date(s).toISOString() does not throw: s is a date-time string of the
\* ECMAScript format (calendar ranges are not checked here).
IsValidDate(s) ==
    DigitShape(s) \in
        { "dddd-dd-ddTdd:dd:dd", "dddd-dd-ddTdd:dd:ddZ",
          "dddd-dd-ddTdd:dd:dd+dd:dd", "dddd-dd-ddTdd:dd:dd-dd:dd",
          "dddd-dd-ddTdd:dd:dd.ddd", "dddd-dd-ddTdd:dd:dd.dddZ",
          "dddd-dd-ddTdd:dd:dd.ddd+dd:dd", "dddd-dd-ddTdd:dd:dd.ddd-dd:dd",
          "dddd-dd-ddTdd:dd", "dddd-dd-ddTdd:ddZ",
          "dddd-dd-dd", "dddd-dd", "dddd" }

Error(kind, detail) == [kind |-> kind, detail |-> detail]
NoError == Error("none", "")

\* Variant: the error quotes the normalised string.
ScheduleTimeErrorQuotesFormatted(publish_time, formatted) ==
    Error("InvalidPublishTime", formatted)

\* The error thrown for a schedule time that is no valid date: it quotes
\* publish_time, the caller's string.
ScheduleTimeError(publish_time, formatted) ==
    Error("InvalidPublishTime", publish_time)

NoMetadata ==
    [title |-> Undefined, privacyStatus |-> Undefined, publishAt |-> Undefined]

\* videoMetadata as it stands when the validation has passed
VideoMetadata(metadata, publish_time) ==
    [title |-> metadata.title,
     privacyStatus |-> EffectivePrivacyStatus(metadata, publish_time),
     publishAt |-> IF Truthy(publish_time)
                   THEN Str(FormattedTime(publish_time.v))
                   ELSE Undefined]

\* The schedule time is given and does not validate
ScheduleTimeInvalid(publish_time) ==
    Truthy(publish_time) /\ ~IsValidDate(FormattedTime(publish_time.v))

(***************************************************************************)
(* The router's switch and the Bilibili stub.                              *)
(***************************************************************************)
\* Variant: the switch compares the name as written.
PlatformRouteCaseSensitive(platform) ==
    IF platform = "youtube" THEN "youtube"
    ELSE IF platform = "bilibili" THEN "bilibili"
    ELSE "default"

PlatformRoute(platform) ==
    LET p == toLowerCase(platform)
    IN IF p = "youtube" THEN "youtube"
       ELSE IF p = "bilibili" THEN "bilibili"
       ELSE "default"

uploadToBilibili == Error("BilibiliNotImplemented", "")

UnsupportedPlatformError(platform) == Error("UnsupportedPlatform", platform)

(***************************************************************************)
(* The thumbnail step's helpers and the result object.                     *)
(***************************************************************************)
\* requestBody: absent, or an object with the four cover path keys
NoRequestBody ==
    [present |-> FALSE, high |-> Undefined, medium |-> Undefined,
     default |-> Undefined, legacy |-> Undefined]
RequestBody(h, m, d, l) ==
    [present |-> TRUE, high |-> h, medium |-> m, default |-> d, legacy |-> l]

\* Variant: the medium path is tried before the high one.
SelectedCoverPathMediumFirst(requestBody) ==
    Or(Or(requestBody.medium, requestBody.high),
       Or(requestBody.default, requestBody.legacy))

\* coverPathHigh || coverPathMedium || coverPathDefault, where
\* coverPathDefault is requestBody['coverPath-default'] || requestBody['coverPath']
SelectedCoverPath(requestBody) ==
    LET coverPathDefault == Or(requestBody.default, requestBody.legacy)
    IN Or(Or(requestBody.high, requestBody.medium), coverPathDefault)

\* selectedCoverPath.startsWith('http')
IsRemoteUrl(path) == StartsWith(path, "http")

Status(kind, detail) == [kind |-> kind, detail |-> detail]
NoStatus == Status("none", "")
\* no valid cover path: the platform's auto-generated thumbnail is used
AutoThumbnailStatus == Status("AutoGeneratedThumbnail", "")
ThumbnailFailedStatus(status) == Status("UploadFailed", status)
ThumbnailSucceededStatus(path) == Status("UploadSucceeded", path)

\* Variant: the URLs are built without the media id.
PresetThumbnailsWithoutId(videoId) ==
    [default |-> "https://i.ytimg.com/vi/default.jpg",
     medium |-> "https://i.ytimg.com/vi/mqdefault.jpg",
     high |-> "https://i.ytimg.com/vi/hqdefault.jpg",
     standard |-> "https://i.ytimg.com/vi/sddefault.jpg",
     maxres |-> "https://i.ytimg.com/vi/maxresdefault.jpg"]

PresetThumbnails(videoId) ==
    [default |-> "https://i.ytimg.com/vi/" \o videoId \o "/default.jpg",
     medium |-> "https://i.ytimg.com/vi/" \o videoId \o "/mqdefault.jpg",
     high |-> "https://i.ytimg.com/vi/" \o videoId \o "/hqdefault.jpg",
     standard |-> "https://i.ytimg.com/vi/" \o videoId \o "/sddefault.jpg",
     maxres |-> "https://i.ytimg.com/vi/" \o videoId \o "/maxresdefault.jpg"]

NoResult ==
    [id |-> "", thumbnailUploadStatus |-> NoStatus,
     presetThumbnails |-> PresetThumbnails("")]

\* { ...videoResult, thumbnailUploadStatus, presetThumbnails }
Result(videoId, status) ==
    [id |-> videoId, thumbnailUploadStatus |-> status,
     presetThumbnails |-> PresetThumbnails(videoId)]

\* How a call of uploadToPlatform stands: pending, returned or thrown
Pending == [kind |-> "pending", error |-> NoError, result |-> NoResult]
Thrown(e) == [kind |-> "thrown", error |-> e, result |-> NoResult]
Returned(res) == [kind |-> "returned", error |-> NoError, result |-> res]

\* Variant: the error leaves the function.
ThumbnailCatchRethrows(videoId, thumbError) == Thrown(thumbError)

\* catch (thumbError): the error becomes the thumbnail status and the
\* function goes on to its return statement
ThumbnailCatch(videoId, thumbError) ==
    Returned(Result(videoId, Status("ProcessingError", thumbError.kind)))

\* Variant: the id is not checked.
MissingVideoIdUnchecked(videoId) == FALSE

\* if (!videoId)
MissingVideoId(videoId) == ~Truthy(videoId)

(***************************************************************************)
(* Inputs of one call, and the collaborators' possible answers.            *)
(***************************************************************************)
Platforms == {"youtube", "YouTube", "bilibili", "BiliBili", "Vimeo"}

Tokens == {"abc123", "Bearer abc123", "Bearer Bearer abc123"}

PrivacyValues == {Undefined, Str("public"), Str("private")}

Titles == {"T"}

Metadatas ==
    {[title |-> Str(t), privacyStatus |-> p] : t \in Titles, p \in PrivacyValues}

\* The bytes of the media stream
VideoStreams == {"mp4-bytes"}

PublishTimes ==
    {Undefined, Str(""),
     Str("2025-04-17T23:57:16Z"), Str("2025-04-17T23:57:16"),
     Str("2025-04-17T23:57:16+08:00"),
     Str("not-a-date"), Str("2025-04-17T23:57:16+0800"), Str("next Zaterdag")}

RequestBodies ==
    {NoRequestBody} \cup
    {RequestBody(h, m, d, l) :
        h \in {Undefined, Null, Str("covers/high.jpg")},
        m \in {Str(""), Str("https://cdn.example/medium.jpg")},
        d \in {Str(""), Str("httpcovers/default.jpg")},
        l \in {Undefined, Num("7"), Str("covers/legacy.jpg")}}

\* env: absent, or carrying the VIDEO_BUCKET binding
Envs == {[present |-> FALSE, bucket |-> FALSE], [present |-> TRUE, bucket |-> TRUE]}

\* The suffixes Math.random().toString(16).substr(2) may give
BoundarySuffixes == {"8c3f1a"}

IdNames == <<"dQw4w9WgXcQ", "9bZkp7q19f0", "kJQP7kiw5Fk", "RgKAFK5djSk">>
VideoIds == {IdNames[i] : i \in 1..NumVideoIds}

Args ==
    [platform : Platforms, videoStream : VideoStreams, accessToken : Tokens,
     metadata : Metadatas, requestBody : RequestBodies,
     publish_time : PublishTimes, env : Envs]

NoArgs ==
    [platform |-> "", videoStream |-> "", accessToken |-> "",
     metadata |-> [title |-> Undefined, privacyStatus |-> Undefined],
     requestBody |-> NoRequestBody, publish_time |-> Undefined,
     env |-> [present |-> FALSE, bucket |-> FALSE]]

\* A response of fetch: the promise rejects, or a status with a body
NoInsertResponse ==
    [rejected |-> FALSE, ok |-> FALSE, status |-> "pending", json |-> FALSE, id |-> Undefined]

InsertResponses ==
    {[rejected |-> TRUE, ok |-> FALSE, status |-> "", json |-> FALSE, id |-> Undefined]}
    \cup {[rejected |-> FALSE, ok |-> FALSE, status |-> st, json |-> TRUE, id |-> Undefined] :
            st \in {"401"}}
    \cup {[rejected |-> FALSE, ok |-> TRUE, status |-> "200", json |-> FALSE, id |-> Undefined]}
    \cup {[rejected |-> FALSE, ok |-> TRUE, status |-> "200", json |-> TRUE, id |-> i] :
            i \in {Undefined, Str("")} \cup {Str(v) : v \in VideoIds}}

\* body: notJson, noItems ({} or an error object), emptyItems (items: []),
\* itemNoStatus (items: [{}]) or item (items: [{status: {privacyStatus}}])
VerifyResponses ==
    {[rejected |-> TRUE, ok |-> FALSE, body |-> "notJson", privacyStatus |-> Undefined]}
    \cup {[rejected |-> FALSE, ok |-> FALSE, body |-> b, privacyStatus |-> Undefined] :
            b \in {"notJson", "noItems"}}
    \cup {[rejected |-> FALSE, ok |-> TRUE, body |-> b, privacyStatus |-> Undefined] :
            b \in {"noItems", "emptyItems", "itemNoStatus"}}
    \cup {[rejected |-> FALSE, ok |-> TRUE, body |-> "item", privacyStatus |-> p] :
            p \in {Str("private"), Str("public")}}

ThumbFetchResponses ==
    {[rejected |-> TRUE, ok |-> FALSE], [rejected |-> FALSE, ok |-> FALSE],
     [rejected |-> FALSE, ok |-> TRUE]}

\* env.VIDEO_BUCKET.get: rejects, resolves to null, or resolves to an object
BucketGetResponses == {"rejected", "null", "object"}

ThumbSetResponses ==
    {[rejected |-> TRUE, ok |-> FALSE, status |-> ""],
     [rejected |-> FALSE, ok |-> FALSE, status |-> "403"],
     [rejected |-> FALSE, ok |-> TRUE, status |-> "200"]}

(***************************************************************************)
(* State.  args: the arguments of each call of uploadToPlatform; pc: the   *)
(* await each call is suspended at; loc: the locals of uploadToYouTube;    *)
(* outcome: what the call returned or threw; calls: every network and      *)
(* object store call issued, in order; streamRead: the media stream of     *)
(* the call has been consumed; random: the suffix that                     *)
(* Math.random().toString(16).substr(2) gives in the call.  The fields insertResponse, verifyBody,      *)
(* queriedPrivacyStatus and thumbFailure of loc record what the            *)
(* collaborators answered.                                                 *)
(***************************************************************************)
VARIABLES args, pc, loc, outcome, calls, streamRead, random

vars == <<args, pc, loc, outcome, calls, streamRead, random>>

NoLocals ==
    [boundary |-> "", formattedAccessToken |-> "", videoMetadata |-> NoMetadata,
     insertResponse |-> NoInsertResponse, videoId |-> Undefined,
     verifyBody |-> "", verified |-> FALSE,
     queriedPrivacyStatus |-> Undefined, warned |-> FALSE,
     selected |-> FALSE, selectedCoverPath |-> Undefined, thumbFailure |-> ""]

RECURSIVE JsonEscape(_)
\* The characters of a string as JSON.stringify writes them between quotes
JsonEscape(s) ==
    IF s = "" THEN ""
    ELSE (CASE Head(s) = "\"" -> "\\\""
            [] Head(s) = "\\" -> "\\\\"
            [] Head(s) = "\r" -> "\\r"
            [] Head(s) = "\n" -> "\\n"
            [] OTHER -> Head(s)) \o JsonEscape(Tail(s))

JsonString(s) == "\"" \o JsonEscape(s) \o "\""

\* JSON.stringify(videoMetadata): members that are undefined are left out
metadataJson(videoMetadata) ==
    "{\"snippet\":{"
    \o (IF videoMetadata.title = Undefined THEN ""
        ELSE "\"title\":" \o JsonString(videoMetadata.title.v))
    \o "},\"status\":{\"privacyStatus\":" \o JsonString(videoMetadata.privacyStatus.v)
    \o (IF videoMetadata.publishAt = Undefined THEN ""
        ELSE ",\"publishAt\":" \o JsonString(videoMetadata.publishAt.v))
    \o "}}"

\* Variant: the media part is enqueued before the metadata part.
MultipartChunksMediaFirst(boundary, json, videoArrayBuffer) ==
    << "--" \o boundary \o "\r\nContent-Type: video/mp4\r\n\r\n",
       videoArrayBuffer,
       "--" \o boundary \o "\r\nContent-Type: application/json; charset=UTF-8\r\n\r\n"
            \o json \o "\r\n",
       "\r\n--" \o boundary \o "--\r\n" >>

\* The chunks start(controller) enqueues, in order, before controller.close()
MultipartChunks(boundary, json, videoArrayBuffer) ==
    << "--" \o boundary \o "\r\nContent-Type: application/json; charset=UTF-8\r\n\r\n"
            \o json \o "\r\n",
       "--" \o boundary \o "\r\nContent-Type: video/mp4\r\n\r\n",
       videoArrayBuffer,
       "\r\n--" \o boundary \o "--\r\n" >>

\* Variant: the formatted token is kept in one variable of the module, which
\* the call entered last has overwritten.
NetworkCallSharedToken(r, op, auth, target, l) ==
    [req |-> r, op |-> op,
     authorization |->
        IF auth = "" THEN ""
        ELSE LET last == CHOOSE q \in Reqs :
                            /\ loc[q].formattedAccessToken # ""
                            /\ \A p \in Reqs : p > q => loc[p].formattedAccessToken = ""
             IN loc[last].formattedAccessToken,
     target |-> target,
     metadata |-> IF op = "videos.insert" THEN l.videoMetadata ELSE NoMetadata,
     boundary |-> IF op = "videos.insert" THEN l.boundary ELSE "",
     body |-> IF op = "videos.insert"
              THEN MultipartChunks(l.boundary, metadataJson(l.videoMetadata),
                                   args[r].videoStream)
              ELSE <<>>,
     closed |-> op = "videos.insert"]

NetworkCall(r, op, auth, target, l) ==
    [req |-> r, op |-> op, authorization |-> auth, target |-> target,
     metadata |-> IF op = "videos.insert" THEN l.videoMetadata ELSE NoMetadata,
     boundary |-> IF op = "videos.insert" THEN l.boundary ELSE "",
     body |-> IF op = "videos.insert"
              THEN MultipartChunks(l.boundary, metadataJson(l.videoMetadata),
                                   args[r].videoStream)
              ELSE <<>>,
     closed |-> op = "videos.insert"]

Step(r, newPc, newLoc, newOutcome, newCalls, read) ==
    /\ pc' = [pc EXCEPT ![r] = newPc]
    /\ loc' = [loc EXCEPT ![r] = newLoc]
    /\ outcome' = [outcome EXCEPT ![r] = newOutcome]
    /\ calls' = calls \o newCalls
    /\ streamRead' = [streamRead EXCEPT ![r] = read]
    /\ UNCHANGED <<args, random>>

\* The call ends: it returns a result or throws
Finish(r, l, o) == Step(r, "done", l, o, <<>>, streamRead[r])

\* The state when the calls argsOf[r] # NoArgs have just been made
InitOf(argsOf, randomOf) ==
    /\ args = argsOf
    /\ random = randomOf
    /\ pc = [r \in Reqs |-> IF argsOf[r] = NoArgs THEN "idle" ELSE "start"]
    /\ loc = [r \in Reqs |-> NoLocals]
    /\ outcome = [r \in Reqs |-> Pending]
    /\ calls = <<>>
    /\ streamRead = [r \in Reqs |-> FALSE]

InitWith(active) ==
    \E a \in Args : \E suffix \in BoundarySuffixes :
        InitOf([r \in Reqs |-> IF r \in active THEN a ELSE NoArgs],
               [r \in Reqs |-> suffix])

Init == InitWith({1})

(***************************************************************************)
(* uploadToPlatform up to the first await: the switch, and for YouTube the *)
(* boundary, the token formatting and the metadata normalisation.          *)
(***************************************************************************)
uploadToYouTubeEntry(r) ==
    LET a == args[r]
    IN  LET l == [loc[r] EXCEPT
                    !.boundary = "----CloudflareWorkerBoundary" \o random[r],
                    !.formattedAccessToken = formatAccessToken(a.accessToken)]
        IN IF ScheduleTimeInvalid(a.publish_time)
           THEN Finish(r, l, Thrown(ScheduleTimeError(a.publish_time.v,
                                        FormattedTime(a.publish_time.v))))
           ELSE Step(r, "readingStream",
                     [l EXCEPT !.videoMetadata = VideoMetadata(a.metadata, a.publish_time)],
                     Pending, <<>>, FALSE)

Dispatch(r) ==
    /\ pc[r] = "start"
    /\ LET route == PlatformRoute(args[r].platform)
       IN IF route = "youtube" THEN uploadToYouTubeEntry(r)
          ELSE IF route = "bilibili" THEN Finish(r, loc[r], Thrown(uploadToBilibili))
          ELSE Finish(r, loc[r], Thrown(UnsupportedPlatformError(args[r].platform)))

(***************************************************************************)
(* await new Response(videoStream).arrayBuffer(), then the multipart body  *)
(* is built and the videos.insert request is issued.                       *)
(***************************************************************************)
StreamRead(r) ==
    /\ pc[r] = "readingStream"
    /\ \E readOk \in BOOLEAN :
        IF readOk
        THEN Step(r, "awaitInsert", loc[r], Pending,
                  <<NetworkCall(r, "videos.insert", loc[r].formattedAccessToken, "", loc[r])>>,
                  TRUE)
        ELSE Step(r, "done", loc[r], Thrown(Error("StreamError", "")), <<>>, TRUE)

(***************************************************************************)
(* The thumbnail step from the selection to its first await or the return. *)
(***************************************************************************)
ThumbnailStage(r, l0) ==
    LET a == args[r]
        videoId == l0.videoId.v
    IN IF ~a.requestBody.present
       THEN \* requestBody['coverPath-high'] of undefined, outside the try
            Finish(r, l0, Thrown(Error("TypeError", "requestBody")))
       ELSE
         LET path == SelectedCoverPath(a.requestBody)
             l == [l0 EXCEPT !.selected = TRUE, !.selectedCoverPath = path]
         IN IF ~Truthy(path)
            THEN Finish(r, l, Returned(Result(videoId, AutoThumbnailStatus)))
            ELSE IF path.t # "string"
            THEN Finish(r, [l EXCEPT !.thumbFailure = "TypeError"],
                        ThumbnailCatch(videoId, Error("TypeError", "startsWith")))
            ELSE IF IsRemoteUrl(path.v)
            THEN Step(r, "awaitThumbFetch", l, Pending,
                      <<NetworkCall(r, "fetch", "", path.v, l)>>, TRUE)
            ELSE IF ~(a.env.present /\ a.env.bucket)
            THEN Finish(r, [l EXCEPT !.thumbFailure = "TypeError"],
                        ThumbnailCatch(videoId, Error("TypeError", "env.VIDEO_BUCKET")))
            ELSE Step(r, "awaitBucketGet", l, Pending,
                      <<NetworkCall(r, "VIDEO_BUCKET.get", "", path.v, l)>>, TRUE)

(***************************************************************************)
(* The videos.insert response, then the status query is issued.            *)
(***************************************************************************)
InsertResponds(r) ==
    /\ pc[r] = "awaitInsert"
    /\ \E resp \in InsertResponses :
        LET l0 == [loc[r] EXCEPT !.insertResponse = resp]
        IN
        IF resp.rejected
        THEN Finish(r, l0, Thrown(Error("NetworkError", "videos.insert")))
        ELSE IF ~resp.ok
        THEN Finish(r, l0, Thrown(Error("VideoUploadError", resp.status)))
        ELSE IF ~resp.json
        THEN Finish(r, l0, Thrown(Error("SyntaxError", "videos.insert")))
        ELSE IF MissingVideoId(resp.id)
        THEN Finish(r, l0, Thrown(Error("MissingVideoId", "")))
        ELSE LET l == [l0 EXCEPT !.videoId = resp.id]
             IN Step(r, "awaitVerify", l, Pending,
                     <<NetworkCall(r, "videos.list", l.formattedAccessToken, resp.id.v, l)>>,
                     TRUE)

\* verifyResult.items[0]?.status?.privacyStatus
QueriedPrivacyStatus(resp) ==
    IF resp.body = "item" THEN resp.privacyStatus ELSE Undefined

(***************************************************************************)
(* The status query's response, the warning, and the thumbnail step up to  *)
(* its first await.                                                        *)
(***************************************************************************)
VerifyResponds(r) ==
    /\ pc[r] = "awaitVerify"
    /\ \E resp \in VerifyResponses :
        LET l0 == [loc[r] EXCEPT
                     !.verifyBody = IF resp.rejected THEN "rejected" ELSE resp.body]
        IN
        IF resp.rejected
        THEN Finish(r, l0, Thrown(Error("NetworkError", "videos.list")))
        ELSE IF resp.body = "notJson"
        THEN Finish(r, l0, Thrown(Error("SyntaxError", "videos.list")))
        ELSE IF resp.body = "noItems"
        THEN \* verifyResult.items[0] of undefined
             Finish(r, l0, Thrown(Error("TypeError", "verifyResult.items")))
        ELSE ThumbnailStage(r, [l0 EXCEPT
                                  !.verified = TRUE,
                                  !.queriedPrivacyStatus = QueriedPrivacyStatus(resp),
                                  !.warned = (QueriedPrivacyStatus(resp) # Str("private"))])

(***************************************************************************)
(* The remote fetch or the object store get answers; thumbnails.set is     *)
(* issued; thumbnails.set answers.                                         *)
(***************************************************************************)
IssueThumbnailSet(r) ==
    Step(r, "awaitThumbSet", loc[r], Pending,
         <<NetworkCall(r, "thumbnails.set", loc[r].formattedAccessToken,
                       loc[r].videoId.v, loc[r])>>, TRUE)

ThumbFetchResponds(r) ==
    /\ pc[r] = "awaitThumbFetch"
    /\ \E resp \in ThumbFetchResponses :
        IF resp.rejected
        THEN Finish(r, [loc[r] EXCEPT !.thumbFailure = "fetch rejected"],
                    ThumbnailCatch(loc[r].videoId.v, Error("NetworkError", "fetch")))
        ELSE IF ~resp.ok
        THEN Finish(r, [loc[r] EXCEPT !.thumbFailure = "fetch not ok"],
                    ThumbnailCatch(loc[r].videoId.v, Error("CoverUrlFetchFailed", "")))
        ELSE IssueThumbnailSet(r)

BucketGetResponds(r) ==
    /\ pc[r] = "awaitBucketGet"
    /\ \E resp \in BucketGetResponses :
        IF resp = "rejected"
        THEN Finish(r, [loc[r] EXCEPT !.thumbFailure = "get rejected"],
                    ThumbnailCatch(loc[r].videoId.v, Error("StorageError", "")))
        ELSE IF resp = "null"
        THEN Finish(r, [loc[r] EXCEPT !.thumbFailure = "get absent"],
                    ThumbnailCatch(loc[r].videoId.v, Error("CoverNotFoundInR2", "")))
        ELSE IssueThumbnailSet(r)

\* Variant: a refused or rejected thumbnails.set is issued a second time.
ThumbSetRespondsRetrying(r) ==
    /\ pc[r] = "awaitThumbSet"
    /\ \E resp \in ThumbSetResponses :
        IF (resp.rejected \/ ~resp.ok)
           /\ Cardinality({i \in 1..Len(calls) :
                   calls[i].req = r /\ calls[i].op = "thumbnails.set"}) < 2
        THEN IssueThumbnailSet(r)
        ELSE IF ~resp.ok
        THEN Finish(r, [loc[r] EXCEPT !.thumbFailure = "set not ok"], Returned(
                 Result(loc[r].videoId.v, ThumbnailFailedStatus(resp.status))))
        ELSE Finish(r, loc[r], Returned(Result(loc[r].videoId.v,
                                   ThumbnailSucceededStatus(loc[r].selectedCoverPath.v))))

ThumbSetResponds(r) ==
    /\ pc[r] = "awaitThumbSet"
    /\ \E resp \in ThumbSetResponses :
        IF resp.rejected
        THEN Finish(r, [loc[r] EXCEPT !.thumbFailure = "set rejected"],
                    ThumbnailCatch(loc[r].videoId.v, Error("NetworkError", "thumbnails.set")))
        ELSE IF ~resp.ok
        THEN Finish(r, [loc[r] EXCEPT !.thumbFailure = "set not ok"], Returned(Result(loc[r].videoId.v, ThumbnailFailedStatus(resp.status))))
        ELSE Finish(r, loc[r], Returned(Result(loc[r].videoId.v,
                                   ThumbnailSucceededStatus(loc[r].selectedCoverPath.v))))

Next ==
    \E r \in Reqs :
        \/ Dispatch(r)
        \/ StreamRead(r)
        \/ InsertResponds(r)
        \/ VerifyResponds(r)
        \/ ThumbFetchResponds(r)
        \/ BucketGetResponds(r)
        \/ ThumbSetResponds(r)

Spec == Init /\ [][Next]_vars

(***************************************************************************)
(* The multipart body: YouTube calls whose title and media bytes vary,     *)
(* some of them holding quotes, line ends or the text of a boundary.       *)
(***************************************************************************)
BodyTitles ==
    {"T", "say \"hi\" \\ bye", "cut ----CloudflareWorkerBoundary8c3f1a here"}

BodyVideoStreams ==
    {"mp4-bytes", "", "ftyp\r\n------CloudflareWorkerBoundary8c3f1a--\r\nmoov"}

\* Math.random() may give 0, whose toString(16).substr(2) is empty
BodySuffixes == {"8c3f1a", "", "f00d"}

BodyArgs ==
    [platform : {"youtube"}, videoStream : BodyVideoStreams, accessToken : {"abc123"},
     metadata : {[title |-> Str(t), privacyStatus |-> Undefined] : t \in BodyTitles},
     requestBody : {RequestBody(Str("covers/high.jpg"), Str(""), Str(""), Undefined),
                    RequestBody(Undefined, Str("https://cdn.example/medium.jpg"),
                                Str(""), Undefined)},
     publish_time : {Undefined, Str("2025-04-17T23:57:16")},
     env : {[present |-> TRUE, bucket |-> TRUE]}]

InitBody ==
    \E a \in BodyArgs : \E suffix \in BodySuffixes :
        InitOf([r \in Reqs |-> IF r = 1 THEN a ELSE NoArgs], [r \in Reqs |-> suffix])

SpecBody == InitBody /\ [][Next]_vars

(***************************************************************************)
(* Two calls in flight at once, each with its own token, media stream,     *)
(* metadata and thumbnail candidates; their steps interleave at the awaits.*)
(***************************************************************************)
FirstArgs ==
    [platform |-> "youtube", videoStream |-> "mp4-first", accessToken |-> "tokenA",
     metadata |-> [title |-> Str("First"), privacyStatus |-> Str("public")],
     requestBody |-> RequestBody(Str("covers/first.jpg"), Str(""), Str(""), Undefined),
     publish_time |-> Undefined,
     env |-> [present |-> TRUE, bucket |-> TRUE]]

SecondArgs ==
    [platform |-> "YouTube", videoStream |-> "mp4-second",
     accessToken |-> "Bearer tokenB",
     metadata |-> [title |-> Str("Second"), privacyStatus |-> Undefined],
     requestBody |-> RequestBody(Undefined, Str("https://cdn.example/second.jpg"),
                                 Str(""), Undefined),
     publish_time |-> Str("2025-04-17T23:57:16"),
     env |-> [present |-> FALSE, bucket |-> FALSE]]

InitConc ==
    InitOf([r \in Reqs |-> IF r = 1 THEN FirstArgs
                           ELSE IF r = 2 THEN SecondArgs ELSE NoArgs],
           [r \in Reqs |-> IF r = 1 THEN "8c3f1a" ELSE "f00d"])

SpecConc == InitConc /\ [][Next]_vars

(***************************************************************************)
(* Properties.                                                             *)
(***************************************************************************)
\* The calls request r issued, in order, and their operations
CallsBy(r) == SelectSeq(calls, LAMBDA c : c.req = r)
OpsBy(r) == [i \in 1..Len(CallsBy(r)) |-> CallsBy(r)[i].op]

\* The lower-cased spelling of every platform name of the model
LowerCased == [p \in Platforms \cup {""} |-> toLowerCase(p)]

RunsYouTube(r) == pc[r] # "idle" /\ LowerCased[args[r].platform] = "youtube"

\* The call returned a result carrying the media id of the insert response
ReturnedWithInsertId(r) ==
    /\ outcome[r].kind = "returned"
    /\ outcome[r].result.id \in VideoIds
    /\ Str(outcome[r].result.id) = loc[r].insertResponse.id

\* C1: once the insert has answered 2xx with an id and a thumbnail candidate
\* has been selected, the call never throws, and every failure of the
\* thumbnail step (object absent, fetch not ok or rejected, thumbnails.set
\* non-2xx or rejected) ends the call with a result that carries the media
\* id of the insert and a failure text in thumbnailUploadStatus.
C1_ThumbnailFailureIsolated ==
    \A r \in Reqs :
        /\ (loc[r].selected /\ Truthy(loc[r].selectedCoverPath))
              => outcome[r].kind # "thrown"
        /\ loc[r].thumbFailure # "" =>
              /\ loc[r].selected /\ Truthy(loc[r].selectedCoverPath)
              /\ pc[r] = "done"
              /\ ReturnedWithInsertId(r)
              /\ outcome[r].result.thumbnailUploadStatus.kind
                    \in {"ProcessingError", "UploadFailed"}

\* C1 witness: thumbnails.set was issued and rejected, and the call returned.
C1_Witness ==
    \E r \in Reqs :
        /\ loc[r].thumbFailure = "set rejected"
        /\ OpsBy(r)[Len(OpsBy(r))] = "thumbnails.set"
        /\ ReturnedWithInsertId(r)

\* C2: whatever requestBody and env are (requestBody absent included), once
\* the insert answered 2xx with an id and the status query returned an items
\* list, the call does not throw and, when it ends, returns that id.
C2_ThumbnailStageNeverFailsUpload ==
    \A r \in Reqs :
        loc[r].verified =>
            /\ outcome[r].kind # "thrown"
            /\ pc[r] = "done" => ReturnedWithInsertId(r)

\* C3: an insert response that is non-2xx, or 2xx with a JSON body without an
\* id, makes the call throw with no result, and the insert stays the only
\* call the request issued.
C3_UploadFatalAborts ==
    \A r \in Reqs :
        LET resp == loc[r].insertResponse
        IN (/\ resp.status # "pending"
            /\ ~resp.rejected
            /\ \/ ~resp.ok
               \/ resp.json /\ resp.id \notin {Str(v) : v \in VideoIds})
           => /\ pc[r] = "done"
              /\ outcome[r].kind = "thrown"
              /\ outcome[r].result = NoResult
              /\ OpsBy(r) = <<"videos.insert">>

\* C3 witness: a 2xx insert response without an id, and the call has thrown.
C3_Witness ==
    \E r \in Reqs :
        /\ loc[r].insertResponse.ok /\ loc[r].insertResponse.json
        /\ loc[r].insertResponse.id = Undefined
        /\ outcome[r].kind = "thrown"

\* C4: after an insert that gave an id, whatever the status query answers
\* (another privacy status, an empty items list, a body without items, a
\* non-2xx response), the call does not throw, reaches the thumbnail step
\* and, when it ends, returns the media id.
C4_VerificationNeverFatal ==
    \A r \in Reqs :
        (/\ loc[r].verifyBody \in {"noItems", "emptyItems", "itemNoStatus", "item"}
         /\ args[r].requestBody.present)
        => /\ outcome[r].kind # "thrown"
           /\ loc[r].selected
           /\ pc[r] = "done" => ReturnedWithInsertId(r)

\* The insert calls issued so far
InsertCalls == {i \in 1..Len(calls) : calls[i].op = "videos.insert"}

\* C5: with no schedule time (publish_time absent or empty) the insert
\* metadata carries the caller's privacyStatus when there is one and
\* "private" when there is none, and carries no publishAt.
C5_PrivacyWithoutSchedule ==
    \A i \in InsertCalls :
        LET a == args[calls[i].req]
        IN a.publish_time \in {Undefined, Str("")} =>
            /\ calls[i].metadata.privacyStatus =
                  (IF a.metadata.privacyStatus = Undefined
                   THEN Str("private")
                   ELSE a.metadata.privacyStatus)
            /\ calls[i].metadata.publishAt = Undefined

\* C5 witness: an insert was issued for an empty schedule time and a public
\* video.
C5_Witness ==
    \E i \in InsertCalls :
        /\ args[calls[i].req].publish_time = Str("")
        /\ args[calls[i].req].metadata.privacyStatus = Str("public")
        /\ calls[i].metadata.privacyStatus = Str("public")

\* The caller's schedule time ends in Z or in a numeric offset
EndsWithTimezone(s) ==
    \/ Len(s) >= 1 /\ Char(s, Len(s)) = "Z"
    \/ EndsWithOffset(s)

\* Every given schedule time of the model, normalised as the claim says
Normalised ==
    [t \in PublishTimes \ {Undefined, Str("")} |->
        Str(IF EndsWithTimezone(t.v) THEN t.v ELSE t.v \o "Z")]

\* C6: with a valid schedule time the insert metadata has privacyStatus
\* "private" whatever the caller gave, and publishAt is the caller's string,
\* with Z appended when it carried no timezone; publishAt is sent if and
\* only if a schedule time was given.
C6_ScheduledUploadIsPrivate ==
    \A i \in InsertCalls :
        LET a == args[calls[i].req]
            given == a.publish_time \notin {Undefined, Str("")}
        IN /\ given =>
                /\ calls[i].metadata.privacyStatus = Str("private")
                /\ calls[i].metadata.publishAt = Normalised[a.publish_time]
           /\ (calls[i].metadata.publishAt # Undefined) <=> given

\* C6 witness: an insert for a public video scheduled without a timezone.
C6_Witness ==
    \E i \in InsertCalls :
        /\ args[calls[i].req].publish_time = Str("2025-04-17T23:57:16")
        /\ args[calls[i].req].metadata.privacyStatus = Str("public")
        /\ calls[i].metadata.publishAt = Str("2025-04-17T23:57:16Z")

\* The schedule times that are given and are no valid date once normalised
InvalidSchedules ==
    {t \in PublishTimes \ {Undefined, Str("")} : ~IsValidDate(FormattedTime(t.v))}

HasInvalidSchedule(r) == RunsYouTube(r) /\ args[r].publish_time \in InvalidSchedules

\* C7: a schedule time that is no valid date after normalisation makes the
\* call throw before any call is issued and before the media stream is read,
\* and the error carries the caller's string.
C7_InvalidScheduleFailsFirst ==
    \A r \in Reqs :
        HasInvalidSchedule(r) =>
            /\ CallsBy(r) = <<>>
            /\ ~streamRead[r]
            /\ pc[r] \in {"start", "done"}
            /\ pc[r] = "done" =>
                  outcome[r] = Thrown(Error("InvalidPublishTime", args[r].publish_time.v))

\* C7 witness: the call has thrown for the schedule time not-a-date.
C7_Witness ==
    \E r \in Reqs :
        /\ args[r].publish_time = Str("not-a-date")
        /\ outcome[r] = Thrown(Error("InvalidPublishTime", "not-a-date"))

\* C8: the router dispatches on the lower-cased name: any casing of youtube
\* runs the YouTube pipeline, any casing of bilibili throws the same
\* not-implemented error, every other name throws an unsupported-platform
\* error naming the platform as written; the last two issue no call and do
\* not read the stream.
C8_RouterDispatch ==
    \A r \in Reqs :
        pc[r] \notin {"idle", "start"} =>
            LET name == LowerCased[args[r].platform]
            IN /\ name = "youtube" =>
                    /\ loc[r].formattedAccessToken # ""
                    /\ outcome[r].error.kind
                          \notin {"BilibiliNotImplemented", "UnsupportedPlatform"}
               /\ name = "bilibili" =>
                    /\ outcome[r] = Thrown(Error("BilibiliNotImplemented", ""))
                    /\ CallsBy(r) = <<>> /\ ~streamRead[r] /\ loc[r] = NoLocals
               /\ name \notin {"youtube", "bilibili"} =>
                    /\ outcome[r] = Thrown(Error("UnsupportedPlatform", args[r].platform))
                    /\ CallsBy(r) = <<>> /\ ~streamRead[r] /\ loc[r] = NoLocals

\* C8 witness: BiliBili, written with capitals, has thrown not-implemented.
C8_Witness ==
    \E r \in Reqs :
        /\ args[r].platform = "BiliBili"
        /\ outcome[r] = Thrown(Error("BilibiliNotImplemented", ""))

RECURSIVE BearerPrefixes(_)
\* How many times "Bearer " is repeated at the head of s
BearerPrefixes(s) ==
    IF StartsWith(s, "Bearer ") THEN 1 + BearerPrefixes(SubSeq(s, 8, Len(s))) ELSE 0

\* The calls of request r that carry an Authorization header
AuthorizedOps == {"videos.insert", "videos.list", "thumbnails.set"}
SameHeaderOnEveryCall(r) ==
    \A i \in 1..Len(calls) :
        (calls[i].req = r /\ calls[i].op \in AuthorizedOps)
            => calls[i].authorization = loc[r].formattedAccessToken

\* C9 as stated: for every token the header carries the prefix exactly once,
\* the token and "Bearer " + token give the identical header, formatting the
\* header again changes nothing, and the three calls use the same header.
C9_BearerExactlyOnce ==
    \A r \in Reqs :
        (RunsYouTube(r) /\ pc[r] # "start") =>
            LET t == args[r].accessToken
                f == loc[r].formattedAccessToken
            IN /\ BearerPrefixes(f) = 1
               /\ f = formatAccessToken("Bearer " \o t)
               /\ formatAccessToken(f) = f
               /\ SameHeaderOnEveryCall(r)

\* C9 amended: the header always starts with "Bearer "; a token that does
\* not itself start with "Bearer " gives the same header as "Bearer " + token,
\* carrying the prefix exactly once; a token that starts with "Bearer " is
\* used unchanged; formatting the header again changes nothing, and the
\* insert, status query and thumbnails.set calls use the same header.
C9_BearerPrefixEnsured ==
    \A r \in Reqs :
        (RunsYouTube(r) /\ pc[r] # "start") =>
            LET t == args[r].accessToken
                f == loc[r].formattedAccessToken
            IN /\ StartsWith(f, "Bearer ")
               /\ ~StartsWith(t, "Bearer ") =>
                     /\ f = "Bearer " \o t
                     /\ f = formatAccessToken("Bearer " \o t)
                     /\ BearerPrefixes(f) = 1
               /\ StartsWith(t, "Bearer ") => f = t
               /\ formatAccessToken(f) = f
               /\ SameHeaderOnEveryCall(r)

\* C9 witness: a request whose token came with the prefix has issued its
\* insert, status query and thumbnails.set calls.
C9_Witness ==
    \E r \in Reqs :
        /\ args[r].accessToken = "Bearer abc123"
        /\ Len(OpsBy(r)) >= 3
        /\ OpsBy(r)[1] = "videos.insert" /\ OpsBy(r)[2] = "videos.list"
        /\ OpsBy(r)[Len(OpsBy(r))] = "thumbnails.set"
        /\ \A i \in 1..Len(calls) :
              calls[i].op \in AuthorizedOps => calls[i].authorization = "Bearer abc123"

\* The first truthy value of a sequence of candidates, Undefined when none is
RECURSIVE FirstUsable(_)
FirstUsable(cands) ==
    IF cands = <<>> THEN Undefined
    ELSE IF Head(cands) \notin {Undefined, Null, Str("")} THEN Head(cands)
    ELSE FirstUsable(Tail(cands))

Candidates(r) ==
    <<args[r].requestBody.high, args[r].requestBody.medium,
      args[r].requestBody.default, args[r].requestBody.legacy>>

ThumbnailOps == {"fetch", "VIDEO_BUCKET.get", "thumbnails.set"}

\* C10: the selected candidate is the first non-empty, non-null value in the
\* order high, medium, default, legacy; when there is none, no object store
\* get, remote fetch or thumbnails.set is issued, thumbnailUploadStatus says
\* the auto-generated thumbnail is used and the call returns the media id.
C10_CandidatePriority ==
    \A r \in Reqs :
        loc[r].selected =>
            LET first == FirstUsable(Candidates(r))
            IN IF first # Undefined
               THEN loc[r].selectedCoverPath = first
               ELSE /\ ~Truthy(loc[r].selectedCoverPath)
                    /\ \A i \in 1..Len(calls) :
                          calls[i].req = r => calls[i].op \notin ThumbnailOps
                    /\ pc[r] = "done"
                    /\ ReturnedWithInsertId(r)
                    /\ outcome[r].result.thumbnailUploadStatus = AutoThumbnailStatus

\* C10 witness: high, medium and default are all set and the high one was
\* selected and looked up in the object store.
C10_Witness ==
    \E r \in Reqs :
        /\ loc[r].selected
        /\ args[r].requestBody.high = Str("covers/high.jpg")
        /\ args[r].requestBody.medium = Str("https://cdn.example/medium.jpg")
        /\ args[r].requestBody.default = Str("httpcovers/default.jpg")
        /\ loc[r].selectedCoverPath = Str("covers/high.jpg")
        /\ \E i \in 1..Len(calls) :
              calls[i].op = "VIDEO_BUCKET.get" /\ calls[i].target = "covers/high.jpg"

\* sub occurs in s
IsSubstring(sub, s) ==
    \E i \in 1..(Len(s) - Len(sub) + 1) : SubSeq(s, i, i + Len(sub) - 1) = sub

PresetKeys == {"default", "medium", "high", "standard", "maxres"}
PresetFiles ==
    [default |-> "default.jpg", medium |-> "mqdefault.jpg", high |-> "hqdefault.jpg",
     standard |-> "sddefault.jpg", maxres |-> "maxresdefault.jpg"]

\* The preset URLs as a function of the media id alone
PresetUrlsOf ==
    [v \in VideoIds |->
        [k \in PresetKeys |-> "https://i.ytimg.com/vi/" \o v \o "/" \o PresetFiles[k]]]

\* Every preset URL of every media id contains that id
PresetUrlsContainId ==
    \A v \in VideoIds : \A k \in PresetKeys : IsSubstring(v, PresetUrlsOf[v][k])

\* C11: every returned result, whatever the thumbnail outcome, carries
\* presetThumbnails with exactly the keys default, medium, high, standard and
\* maxres, each a URL determined by the media id alone and containing it, and
\* no call to the thumbnail host is issued for them.
C11_PresetThumbnails ==
    \A r \in Reqs :
        outcome[r].kind = "returned" =>
            LET res == outcome[r].result
            IN /\ res.id \in VideoIds
               /\ DOMAIN res.presetThumbnails = PresetKeys
               /\ \A k \in PresetKeys : res.presetThumbnails[k] = PresetUrlsOf[res.id][k]
               /\ PresetUrlsContainId
               /\ res.thumbnailUploadStatus.kind \in
                     {"AutoGeneratedThumbnail", "UploadSucceeded", "UploadFailed",
                      "ProcessingError"}
               /\ \A i \in 1..Len(calls) : ~StartsWith(calls[i].target, "https://i.ytimg.com")

\* C11 witness: a call whose thumbnails.set was refused has returned its
\* preset URLs.
C11_Witness ==
    \E r \in Reqs :
        /\ outcome[r].kind = "returned"
        /\ outcome[r].result.thumbnailUploadStatus.kind = "UploadFailed"
        /\ outcome[r].result.presetThumbnails.maxres =
              "https://i.ytimg.com/vi/" \o outcome[r].result.id \o "/maxresdefault.jpg"

GivenSchedules == PublishTimes \ {Undefined, Str("")}

\* The code's normalisation of every given schedule time, applied once and twice
NormalisedOnce == [t \in GivenSchedules |-> FormattedTime(t.v)]
NormalisedTwice == [t \in GivenSchedules |-> FormattedTime(FormattedTime(t.v))]

\* C13: the schedule-time normalisation is idempotent: a string that already
\* ends in Z comes out unchanged, and normalising an output of the
\* normalisation (the publishAt that was sent included) appends no further Z.
C13_NormalisationIdempotent ==
    \A r \in Reqs :
        (RunsYouTube(r) /\ pc[r] # "start" /\ args[r].publish_time \in GivenSchedules) =>
            LET t == args[r].publish_time
                sent == loc[r].videoMetadata.publishAt
            IN /\ NormalisedTwice[t] = NormalisedOnce[t]
               /\ Char(t.v, Len(t.v)) = "Z" => NormalisedOnce[t] = t.v
               /\ sent # Undefined =>
                     /\ sent.v = NormalisedOnce[t]
                     /\ FormattedTime(sent.v) = sent.v

\* C13 witness: a schedule time that came with Z was sent as publishAt.
C13_Witness ==
    \E i \in InsertCalls :
        /\ args[calls[i].req].publish_time = Str("2025-04-17T23:57:16Z")
        /\ calls[i].metadata.publishAt = Str("2025-04-17T23:57:16Z")

\* C14: the verification compares the queried privacy status with the
\* effective privacy status that was sent in the insert: the mismatch warning
\* is raised if and only if the two differ.
C14_WarningIffMismatch ==
    \A r \in Reqs :
        loc[r].verified =>
            (loc[r].warned <=>
                loc[r].queriedPrivacyStatus # loc[r].videoMetadata.privacyStatus)

\* How many calls of the given operations request r has issued
CallCount(r, ops) ==
    Cardinality({i \in 1..Len(calls) : calls[i].req = r /\ calls[i].op \in ops})

\* C16: in one run each network operation (media insert, status query,
\* thumbnail source lookup by remote fetch or object store get,
\* thumbnails.set) is issued at most once, whatever the responses are, and
\* a call that failed is not issued again.
C16_NothingRetried ==
    \A r \in Reqs :
        /\ CallCount(r, {"videos.insert"}) <= 1
        /\ CallCount(r, {"videos.list"}) <= 1
        /\ CallCount(r, {"fetch", "VIDEO_BUCKET.get"}) <= 1
        /\ CallCount(r, {"thumbnails.set"}) <= 1
        /\ (loc[r].insertResponse.status # "pending"
              /\ (loc[r].insertResponse.rejected \/ ~loc[r].insertResponse.ok))
              => OpsBy(r) = <<"videos.insert">>
        /\ loc[r].verifyBody \in {"rejected", "notJson", "noItems"}
              => OpsBy(r) = <<"videos.insert", "videos.list">>
        /\ loc[r].thumbFailure \in {"fetch rejected", "fetch not ok"}
              => OpsBy(r) = <<"videos.insert", "videos.list", "fetch">>
        /\ loc[r].thumbFailure \in {"get rejected", "get absent"}
              => OpsBy(r) = <<"videos.insert", "videos.list", "VIDEO_BUCKET.get">>
        /\ loc[r].thumbFailure \in {"set rejected", "set not ok"}
              => /\ Len(OpsBy(r)) = 4
                 /\ OpsBy(r)[4] = "thumbnails.set"

\* C16 witness: thumbnails.set was refused and the run ended with its four
\* calls.
C16_Witness ==
    \E r \in Reqs :
        /\ loc[r].thumbFailure = "set not ok"
        /\ pc[r] = "done"
        /\ OpsBy(r) = <<"videos.insert", "videos.list", "VIDEO_BUCKET.get", "thumbnails.set">>

\* The locator has the shape of an absolute URL
LooksLikeAbsoluteUrl(s) == StartsWith(s, "http://") \/ StartsWith(s, "https://")

\* C17: the selected candidate is fetched remotely exactly when it looks like
\* an absolute URL and is looked up in the object store otherwise, a path
\* whose name merely begins with http included; one candidate never takes
\* both routes.
C17_RouteByLocatorShape ==
    \A i \in 1..Len(calls) :
        calls[i].op \in {"fetch", "VIDEO_BUCKET.get"} =>
            /\ calls[i].target = loc[calls[i].req].selectedCoverPath.v
            /\ (calls[i].op = "fetch") <=> LooksLikeAbsoluteUrl(calls[i].target)
            /\ CallCount(calls[i].req, {"fetch", "VIDEO_BUCKET.get"}) = 1

\* The insert calls issued so far
InsertCallsOf == {calls[i] : i \in InsertCalls}

\* C12: the boundary token generated for one insert call never appears
\* inside the JSON metadata part's payload or inside the media part's payload
\* of the multipart body built with it, for every metadata content and every
\* media byte content.
C12_BoundaryNotInPayload ==
    \A c \in InsertCallsOf :
        /\ ~IsSubstring(c.boundary, metadataJson(c.metadata))
        /\ ~IsSubstring(c.boundary, args[c.req].videoStream)

\* The text of the JSON metadata part, of the media part header and of the
\* terminating marker for a boundary
JsonPartOf(boundary, json) ==
    "--" \o boundary \o "\r\nContent-Type: application/json; charset=UTF-8\r\n\r\n"
         \o json \o "\r\n"
MediaHeaderOf(boundary) == "--" \o boundary \o "\r\nContent-Type: video/mp4\r\n\r\n"
TerminatorOf(boundary) == "\r\n--" \o boundary \o "--\r\n"

\* C15: the multipart body stream emits its chunks in a fixed order on every
\* call: the boundary-delimited JSON metadata part, then the media part
\* header followed by the media bytes, then the terminating boundary marker,
\* after which the stream is closed and nothing more is emitted; the media
\* bytes are fully read from the input stream before the first chunk is
\* emitted.
C15_ChunkOrder ==
    \A c \in InsertCallsOf :
        /\ Len(c.body) = 4
        /\ c.body[1] = JsonPartOf(c.boundary, metadataJson(c.metadata))
        /\ c.body[2] = MediaHeaderOf(c.boundary)
        /\ c.body[3] = args[c.req].videoStream
        /\ c.body[4] = TerminatorOf(c.boundary)
        /\ c.closed
        /\ streamRead[c.req]

\* C15 witness: a scheduled upload whose title holds quotes and whose media
\* bytes are not empty has issued its insert, and the JSON part holds the
\* escaped title.
C15_Witness ==
    \E c \in InsertCallsOf :
        /\ args[c.req].videoStream = "mp4-bytes"
        /\ c.metadata.publishAt # Undefined
        /\ c.body[1] =
              "------CloudflareWorkerBoundaryf00d\r\n"
              \o "Content-Type: application/json; charset=UTF-8\r\n\r\n"
              \o "{\"snippet\":{\"title\":\"say \\\"hi\\\" \\\\ bye\"},"
              \o "\"status\":{\"privacyStatus\":\"private\","
              \o "\"publishAt\":\"2025-04-17T23:57:16Z\"}}\r\n"
        /\ pc[c.req] = "done"

\* What belongs to request r: its inputs, its position, its locals, how it
\* stands and the calls it has issued
Projection(r) ==
    <<args[r], random[r], pc[r], loc[r], outcome[r], streamRead[r], CallsBy(r)>>

\* The operations a run issues, in order, for the candidate it selected
OwnOps(r) ==
    <<"videos.insert", "videos.list",
      IF IsRemoteUrl(loc[r].selectedCoverPath.v) THEN "fetch" ELSE "VIDEO_BUCKET.get",
      "thumbnails.set">>

\* How many calls a run standing at a given await has issued
IssuedAt ==
    [start |-> 0, readingStream |-> 0, awaitInsert |-> 1, awaitVerify |-> 2,
     awaitThumbFetch |-> 3, awaitBucketGet |-> 3, awaitThumbSet |-> 4]

\* Every call of request r is built from r's own token, boundary, metadata,
\* media bytes, media id and candidate, and is one of the calls r issues
\* when it runs alone
CallsAreOwn(r) ==
    /\ Len(OpsBy(r)) <= 4
    /\ OpsBy(r) = SubSeq(OwnOps(r), 1, Len(OpsBy(r)))
    /\ pc[r] \in DOMAIN IssuedAt => Len(OpsBy(r)) = IssuedAt[pc[r]]
    /\ \A i \in 1..Len(CallsBy(r)) :
         LET c == CallsBy(r)[i]
         IN /\ c.authorization =
                  IF c.op \in AuthorizedOps
                  THEN formatAccessToken(args[r].accessToken) ELSE ""
            /\ c.op = "videos.insert" =>
                  /\ c.boundary = "----CloudflareWorkerBoundary" \o random[r]
                  /\ c.metadata = VideoMetadata(args[r].metadata, args[r].publish_time)
                  /\ c.body = MultipartChunks(c.boundary, metadataJson(c.metadata),
                                              args[r].videoStream)
            /\ c.op \in {"videos.list", "thumbnails.set"} =>
                  c.target = loc[r].insertResponse.id.v
            /\ c.op \in {"fetch", "VIDEO_BUCKET.get"} =>
                  c.target = SelectedCoverPath(args[r].requestBody).v

\* The result of request r carries the id of r's own insert response and a
\* thumbnail status of r's own candidate
ResultIsOwn(r) ==
    outcome[r].kind = "returned" =>
        LET res == outcome[r].result
        IN /\ res.id = loc[r].insertResponse.id.v
           /\ res.presetThumbnails = PresetThumbnails(loc[r].insertResponse.id.v)
           /\ res.thumbnailUploadStatus.kind = "UploadSucceeded" =>
                 /\ res.thumbnailUploadStatus.detail =
                       SelectedCoverPath(args[r].requestBody).v
                 /\ OpsBy(r) = OwnOps(r)
           /\ res.thumbnailUploadStatus.kind \in {"UploadFailed", "ProcessingError"} =>
                 loc[r].thumbFailure # ""

\* Nothing of another request is in r's calls
NothingForeign(r) ==
    \A q \in Reqs \ {r} : \A i \in 1..Len(CallsBy(r)) :
        LET c == CallsBy(r)[i]
        IN (args[q] # NoArgs /\ args[q] # args[r]) =>
            /\ c.authorization # formatAccessToken(args[q].accessToken)
            /\ c.op = "videos.insert" =>
                  /\ c.boundary # "----CloudflareWorkerBoundary" \o random[q]
                  /\ c.metadata.title # args[q].metadata.title
                  /\ c.body[3] # args[q].videoStream
            /\ c.op \in {"fetch", "VIDEO_BUCKET.get"} =>
                  c.target # SelectedCoverPath(args[q].requestBody).v

\* A step belongs to one request and leaves every other request as it was
OneRequestSteps ==
    \E r \in Reqs : \A q \in Reqs \ {r} : Projection(q)' = Projection(q)

\* C18: requests are independent under concurrency: when two uploadToPlatform
\* calls run interleaved at their suspension points, each with its own token,
\* media stream, metadata and thumbnail candidates, the calls issued and the
\* result or error of each are those of its own run, and no token, media id,
\* boundary, metadata or thumbnail status of one request appears in a call
\* or in the result of the other.
C18_RequestsIndependent ==
    /\ [](\A r \in Reqs : CallsAreOwn(r) /\ ResultIsOwn(r) /\ NothingForeign(r))
    /\ [][OneRequestSteps]_vars

\* C18 witness: the two runs interleaved call by call; both returned, the
\* first with its own cover uploaded from the bucket and the second, which
\* got another media id, with its remote cover refused.
C18_Witness ==
    /\ Len(calls) = 8
    /\ \A i \in 1..8 : calls[i].req = IF i % 2 = 1 THEN 2 ELSE 1
    /\ outcome[1].kind = "returned" /\ outcome[2].kind = "returned"
    /\ outcome[1].result.id # outcome[2].result.id
    /\ outcome[1].result.thumbnailUploadStatus =
          ThumbnailSucceededStatus("covers/first.jpg")
    /\ outcome[2].result.thumbnailUploadStatus.kind = "UploadFailed"

====
